---- MODULE Spec2Model ----
(***************************************************************************)
(* A model of marshmallow_jsonschema/base.py: the JSONSchema serializer    *)
(* that compiles a marshmallow schema into a JSON Schema (draft-07)        *)
(* document.                                                               *)
(*                                                                         *)
(* JSON values are tagged tuples, so that values of different JSON types   *)
(* (the string "array" and the list ["array", "null"]) can be compared.    *)
(* A JSON object (a Python dict) is a function from string keys to JSON    *)
(* values; d.update(e) is  e @@ d  and  d[k] = v  is  (k :> v) @@ d.       *)
(***************************************************************************)
EXTENDS Integers, Sequences, FiniteSets, TLC

VARIABLES
    schemas,                \* the marshmallow schema classes: name -> [fields, Meta]
    stack,                  \* the active JSONSchema.dump() calls, root first
    _nested_schema_classes, \* the root JSONSchema instance's self._nested_schema_classes
    outcome,                \* how the last root dump() ended
    root,                   \* the class name of the last root dump()'s obj
    returned,               \* definitions of the last returned document, as they were at return
    compiles,               \* per schema name, the dump() calls of the current root call
    dumped,                 \* the last completed dump(): its instance's fields and its data
    calls_left,             \* root dump() calls this scenario still makes
    schemas0                \* the schema classes as they were before the first dump()

vars == <<schemas, stack, _nested_schema_classes, outcome, root, returned,
          compiles, dumped, calls_left, schemas0>>

----------------------------------------------------------------------------
(* JSON values *)

JStr(s) == <<"str", s>>
JNum(n) == <<"num", n>>
JBool(b) == <<"bool", b>>
JList(q) == <<"list", q>>
JObj(f) == <<"obj", f>>

IsObj(v) == v[1] = "obj"
IsBool(v) == v[1] = "bool"

\* {} in Python
EmptyDict == <<>>

\* marshmallow.missing, and Python's None
missing == <<"missing">>
None == <<"None">>

----------------------------------------------------------------------------
(* The schema classes this model compiles, and the names of their fields. *)

Names == {"A", "B", "C", "D"}

\* Field names in the order Python's sorted() gives them.
FieldNames == <<"a", "b", "c", "d">>

FieldRank(n) == CHOOSE i \in 1..Len(FieldNames) : FieldNames[i] = n

RECURSIVE SortedFrom(_, _)
SortedFrom(S, i) ==
    IF i > Len(FieldNames) THEN <<>>
    ELSE (IF FieldNames[i] \in S THEN <<FieldNames[i]>> ELSE <<>>) \o SortedFrom(S, i + 1)

\* sorted(obj.fields.items()): the keys of a fields dict in sorted order
sorted(S) == SortedFrom(S, 1)

----------------------------------------------------------------------------
(* Dictionaries *)

\* d.get(k, default)
DictGet(d, k, default) == IF k \in DOMAIN d THEN d[k] ELSE default

\* d[k] = v
DictSet(d, k, v) == (k :> v) @@ d

\* d.update(e)
DictUpdate(d, e) == e @@ d

----------------------------------------------------------------------------
(* TYPE_MAP: python type -> base fragment *)

PyTypes == {"dict", "list", "time", "timedelta", "datetime", "date", "UUID",
            "text_type", "binary_type", "Decimal", "set", "tuple", "float",
            "int", "bool"}

TypeOnly(t) == [k \in {"type"} |-> JStr(t)]
TypeFormat(t, f) == [k \in {"type", "format"} |-> IF k = "type" THEN JStr(t) ELSE JStr(f)]

TYPE_MAP(pytype) ==
    CASE pytype = "dict" -> TypeOnly("object")
      [] pytype = "list" -> TypeOnly("array")
      [] pytype = "time" -> TypeFormat("string", "time")
      [] pytype = "timedelta" -> TypeOnly("string")
      [] pytype = "datetime" -> TypeFormat("string", "date-time")
      [] pytype = "date" -> TypeFormat("string", "date")
      [] pytype = "UUID" -> TypeFormat("string", "uuid")
      [] pytype = "text_type" -> TypeOnly("string")
      [] pytype = "binary_type" -> TypeOnly("string")
      [] pytype = "Decimal" -> TypeFormat("number", "decimal")
      [] pytype = "set" -> TypeOnly("array")
      [] pytype = "tuple" -> TypeOnly("array")
      [] pytype = "float" -> TypeFormat("number", "float")
      [] pytype = "int" -> TypeFormat("number", "integer")
      [] pytype = "bool" -> TypeOnly("boolean")

----------------------------------------------------------------------------
(* _get_default_mapping and _get_pytype: marshmallow field class -> python  *)
(* type, first match in the mapping's order, by class ancestry.             *)

\* The marshmallow field classes of this model; "Function" has no mapping.
FieldClasses == {"String", "Email", "Url", "DateTime", "Float", "Boolean", "Raw",
                 "Integer", "UUID", "Time", "Date", "TimeDelta", "Decimal",
                 "Dict", "List", "Nested", "Number", "Function"}

\* issubclass(c, base) among the field classes
IsSubclass(c, base) ==
    \/ c = base
    \/ c \in {"Email", "Url"} /\ base = "String"
    \/ c \in {"Integer", "Float", "Decimal"} /\ base = "Number"

\* {v: k for k, v in obj.TYPE_MAPPING.items()}, then the update of lines 93-103,
\* as the ordered items of the resulting dict
_get_default_mapping ==
    << <<"String", "binary_type">>, <<"DateTime", "datetime">>, <<"Float", "float">>,
       <<"Boolean", "bool">>, <<"Raw", "set">>, <<"Integer", "int">>,
       <<"UUID", "UUID">>, <<"Time", "time">>, <<"Date", "date">>,
       <<"TimeDelta", "timedelta">>, <<"Decimal", "Decimal">>,
       <<"Email", "text_type">>, <<"Dict", "dict">>, <<"Url", "text_type">>,
       <<"List", "list">>, <<"Nested", "_from_nested_schema">>,
       <<"Number", "Decimal">> >>

Unsupported == "UnsupportedValueError"

\* _get_pytype: the pytype of the first map_class the field's class is a subclass
\* of, or the UnsupportedValueError it raises
_get_pytype(field, mapping) ==
    LET hits == {i \in 1..Len(mapping) : IsSubclass(field.cls, mapping[i][1])}
    IN  IF hits = {} THEN Unsupported
        ELSE mapping[CHOOSE i \in hits : \A j \in hits : i <= j][2]

----------------------------------------------------------------------------
(* The backwards-compatible metadata merge of lines 139-146 and 218-225.   *)

\* Inside the nested "metadata" sub-mapping, after metadata.update(field.metadata),
\* the key "metadata" refers to the sub-mapping itself.
SelfRef == <<"ref", "metadata">>

\* field.metadata.get("metadata", {}): the dict behind the nested sub-mapping
MetadataSub(md) == IF "metadata" \in DOMAIN md THEN md["metadata"][2] ELSE EmptyDict

\* metadata = field.metadata.get("metadata", {}); metadata.update(field.metadata)
MergedMetadata(md) ==
    LET sub == MetadataSub(md)
    IN  [k \in DOMAIN md \cup DOMAIN sub |->
            IF k = "metadata" THEN SelfRef
            ELSE IF k \in DOMAIN md THEN md[k] ELSE sub[k]]

\* Mutant of CopyMetadata: a metadata key does not replace a key the fragment
\* already has.
CopyMetadata_keep_existing(schema, md) ==
    LET merged == MergedMetadata(md)
    IN  [k \in DOMAIN schema \cup (DOMAIN merged \ {"metadata"}) |->
            IF k \in DOMAIN schema THEN schema[k] ELSE merged[k]]

\* for md_key, md_val in metadata.items(): skip "metadata", copy the rest
CopyMetadata(schema, md) ==
    LET merged == MergedMetadata(md)
    IN  [k \in DOMAIN schema \cup (DOMAIN merged \ {"metadata"}) |->
            IF k \in DOMAIN merged \ {"metadata"} THEN merged[k] ELSE schema[k]]

\* field.metadata after the merge: update() changes the nested sub-mapping in
\* place when the field has one, and a fresh {} when it has none
MetadataAfterMerge(md) ==
    IF "metadata" \in DOMAIN md
    THEN DictSet(md, "metadata", JObj(MergedMetadata(md)))
    ELSE md

----------------------------------------------------------------------------
(* validation.py: handle_length, handle_one_of, handle_range.              *)

\* the "type" a handler finds in the fragment
FragmentType(schema) == DictGet(schema, "type", None)

SetIfGiven(schema, key, val) == IF val = None THEN schema ELSE DictSet(schema, key, val)

\* Length: minLength/maxLength on a string, minItems/maxItems on an array,
\* both set to `equal` when an exact length is given
handle_length(schema, field, validator) ==
    LET isString == FragmentType(schema) = JStr("string")
        minKey == IF isString THEN "minLength" ELSE "minItems"
        maxKey == IF isString THEN "maxLength" ELSE "maxItems"
    IN  IF validator.equal # None
        THEN DictSet(DictSet(schema, minKey, validator.equal), maxKey, validator.equal)
        ELSE SetIfGiven(SetIfGiven(schema, minKey, validator.min), maxKey, validator.max)

\* OneOf: enum is the ordered sequence of the choices
handle_one_of(schema, field, validator) ==
    DictSet(schema, "enum", JList(validator.choices))

\* Range: minimum/maximum, with exclusiveMinimum/exclusiveMaximum as booleans
\* beside a bound marked exclusive
handle_range(schema, field, validator) ==
    LET lo == SetIfGiven(schema, "minimum", validator.min)
        loX == IF validator.min # None /\ validator.min_exclusive
               THEN DictSet(lo, "exclusiveMinimum", JBool(TRUE)) ELSE lo
        hi == SetIfGiven(loX, "maximum", validator.max)
    IN  IF validator.max # None /\ validator.max_exclusive
        THEN DictSet(hi, "exclusiveMaximum", JBool(TRUE)) ELSE hi

\* the validator classes that have a handler
FIELD_VALIDATORS == {"Length", "OneOf", "Range"}

ApplyValidator(schema, field, validator) ==
    CASE validator.cls = "Length" -> handle_length(schema, field, validator)
      [] validator.cls = "OneOf" -> handle_one_of(schema, field, validator)
      [] validator.cls = "Range" -> handle_range(schema, field, validator)
      [] OTHER -> schema

\* for validator in field.validators: if its class has a handler, apply it
RECURSIVE ApplyValidators(_, _, _)
ApplyValidators(schema, field, i) ==
    IF i > Len(field.validators) THEN schema
    ELSE ApplyValidators(
            IF field.validators[i].cls \in FIELD_VALIDATORS
            THEN ApplyValidator(schema, field, field.validators[i])
            ELSE schema,
            field, i + 1)

----------------------------------------------------------------------------
(* Fragments of one field: _get_schema_for_field, _from_python_type and    *)
(* the fragment-building half of _from_nested_schema (lines 215-233).      *)

\* hasattr(field, "_jsonschema_type_mapping") or the metadata key of that name
HasTypeMapping(field) ==
    field.type_mapping # <<>> \/ "_jsonschema_type_mapping" \in DOMAIN field.metadata

\* "#/definitions/{}".format(name)
DefinitionRef(name) == "#/definitions/" \o name

\* Mutant of NestedFragment: the metadata is copied onto the array wrapper of a
\* many field instead of onto the reference fragment.
NestedFragment_metadata_on_wrapper(field) ==
    LET ref == [k \in {"type", "$ref"} |->
                   IF k = "type" THEN JStr("object") ELSE JStr(DefinitionRef(field.nested))]
    IN  IF field.many
        THEN CopyMetadata([k \in {"type", "items"} |->
                              IF k = "type"
                              THEN (IF field.required THEN JStr("array")
                                    ELSE JList(<<"array", "null">>))
                              ELSE JObj(ref)],
                          field.metadata)
        ELSE CopyMetadata(ref, field.metadata)

\* lines 215-233: the reference fragment, the field's metadata copied onto it,
\* and the array wrapper of a many field
NestedFragment(field) ==
    LET ref == [k \in {"type", "$ref"} |->
                   IF k = "type" THEN JStr("object") ELSE JStr(DefinitionRef(field.nested))]
        schema == CopyMetadata(ref, field.metadata)
    IN  IF field.many
        THEN [k \in {"type", "items"} |->
                 IF k = "type"
                 THEN (IF field.required THEN JStr("array") ELSE JList(<<"array", "null">>))
                 ELSE JObj(schema)]
        ELSE schema

RECURSIVE _get_schema_for_field(_)

\* lines 126-150; list_inner(field) is field.inner[1]
_from_python_type(field, pytype) ==
    LET titled == [k \in {"title"} |->
                      JStr(IF field.attribute # "" THEN field.attribute ELSE field.name)]
        typed == DictUpdate(titled, TYPE_MAP(pytype))
        ro == IF field.dump_only THEN DictSet(typed, "readonly", JBool(TRUE)) ELSE typed
        dflt == IF field.default # missing THEN DictSet(ro, "default", field.default) ELSE ro
        merged == CopyMetadata(dflt, field.metadata)
    IN  IF field.cls = "List"
        THEN DictSet(merged, "items", JObj(_get_schema_for_field(field.inner[1])))
        ELSE merged

\* lines 159-178, for a field whose nested schema (if it has one) needs no
\* compilation any more
_get_schema_for_field(field) ==
    LET pytype == _get_pytype(field, _get_default_mapping)
        schema ==
            IF field.type_mapping # <<>> THEN field.type_mapping[1]
            ELSE IF "_jsonschema_type_mapping" \in DOMAIN field.metadata
            THEN field.metadata["_jsonschema_type_mapping"][2]
            ELSE IF pytype = "_from_nested_schema" THEN NestedFragment(field)
            ELSE _from_python_type(field, pytype)
    IN  ApplyValidators(schema, field, 1)

\* whether _get_schema_for_field raises UnsupportedValueError (line 157), for the
\* field or for the inner field of a list
RECURSIVE RaisesUnsupported(_)
RaisesUnsupported(field) ==
    /\ ~HasTypeMapping(field)
    /\ \/ _get_pytype(field, _get_default_mapping) = Unsupported
       \/ /\ _get_pytype(field, _get_default_mapping) # "_from_nested_schema"
          /\ field.cls = "List"
          /\ RaisesUnsupported(field.inner[1])

\* the Nested field that _get_schema_for_field reaches through the field and the
\* inner fields of lists: <<>> if none, else <<that field>>
RECURSIVE NestedCore(_)
NestedCore(field) ==
    IF HasTypeMapping(field) THEN <<>>
    ELSE LET pytype == _get_pytype(field, _get_default_mapping)
         IN  IF pytype = "_from_nested_schema" THEN <<field>>
             ELSE IF pytype # Unsupported /\ field.cls = "List"
             THEN NestedCore(field.inner[1])
             ELSE <<>>

\* The field after lines 140-141 / 219-220 ran on it and on the inner fields
\* reached: with `whole`, after _get_schema_for_field returned; without, at the
\* point where the nested schema is about to be dumped (or the type lookup raises)
RECURSIVE FieldAfter(_, _)
FieldAfter(field, whole) ==
    IF HasTypeMapping(field) THEN field
    ELSE LET pytype == _get_pytype(field, _get_default_mapping)
         IN  IF pytype = Unsupported THEN field
             ELSE IF pytype = "_from_nested_schema"
             THEN (IF whole
                   THEN [field EXCEPT !.metadata = MetadataAfterMerge(field.metadata)]
                   ELSE field)
             ELSE IF field.cls = "List"
             THEN [field EXCEPT !.metadata = MetadataAfterMerge(field.metadata),
                                !.inner = <<FieldAfter(field.inner[1], whole)>>]
             ELSE [field EXCEPT !.metadata = MetadataAfterMerge(field.metadata)]

----------------------------------------------------------------------------
(* Schema level: get_required, _resolve_additional_properties, the data of  *)
(* one dump().                                                              *)

RAISE == JStr("raise")
EXCLUDE == JStr("exclude")
INCLUDE == JStr("include")

\* the result of a call that raises exception e instead of returning a value
Raised(e) == <<"raised", e>>

\* Mutant of _resolve_additional_properties: Meta.unknown is looked at before
\* Meta.additional_properties.
_resolve_additional_properties_unknown_first(cls) ==
    LET meta == cls.Meta
    IN  IF meta.unknown # None
        THEN (IF meta.unknown \in {RAISE, EXCLUDE} THEN JBool(FALSE)
              ELSE IF meta.unknown = INCLUDE THEN JBool(TRUE)
              ELSE Raised(Unsupported))
        ELSE IF meta.additional_properties = None THEN JBool(FALSE)
        ELSE IF meta.additional_properties \in {JBool(TRUE), JBool(FALSE)}
        THEN meta.additional_properties
        ELSE Raised(Unsupported)

\* lines 54-74; None where the attribute is absent from Meta
_resolve_additional_properties(cls) ==
    LET meta == cls.Meta
    IN  IF meta.additional_properties # None
        THEN (IF meta.additional_properties \in {JBool(TRUE), JBool(FALSE)}
              THEN meta.additional_properties
              ELSE Raised(Unsupported))
        ELSE IF meta.unknown = None THEN JBool(FALSE)
        ELSE IF meta.unknown \in {RAISE, EXCLUDE} THEN JBool(FALSE)
        ELSE IF meta.unknown = INCLUDE THEN JBool(TRUE)
        ELSE Raised(Unsupported)

\* lines 116-124: the names of the required fields in sorted field-name order
RECURSIVE RequiredFrom(_, _, _)
RequiredFrom(fields, names, i) ==
    IF i > Len(names) THEN <<>>
    ELSE (IF fields[names[i]].required THEN <<fields[names[i]].name>> ELSE <<>>)
         \o RequiredFrom(fields, names, i + 1)

\* Mutant of get_required: `return required`, without `or missing`.
get_required_never_missing(fields, names) == JList(RequiredFrom(fields, names, 1))

get_required(fields, names) ==
    LET required == RequiredFrom(fields, names, 1)
    IN  IF required # <<>> THEN JList(required) ELSE missing

\* What Schema.dump serializes from the declared fields of lines 80-82: a Method
\* field that returns `missing` leaves its key out
DumpData(properties, required) ==
    LET base == [k \in {"properties", "type"} |->
                    IF k = "properties" THEN JObj(properties) ELSE JStr("object")]
    IN  IF required = missing THEN base ELSE DictSet(base, "required", required)

----------------------------------------------------------------------------
(* The dump() calls in progress.  Each is a JSONSchema instance of its own *)
(* (line 202: self.__class__(nested=True)) with its own                    *)
(* _nested_schema_classes (line 86); the root instance's is the variable   *)
(* of that name, which lives as long as the instance does.                 *)

\* How deep dump() calls may nest before the interpreter raises RecursionError.
RecursionLimit == 5

\* nested(only=only, exclude=exclude): the field names of the instance
InstanceFields(cls, only, exclude) ==
    {f \in DOMAIN cls.fields : (only = <<>> \/ f \in only[1]) /\ f \notin exclude}

\* A JSONSchema instance dumping an instance of class `obj`
Frame(obj, fieldnames, isNested) ==
    [obj |-> obj, fieldnames |-> fieldnames, idx |-> 1, properties |-> EmptyDict,
     registry |-> EmptyDict, nested |-> isNested]

Top == stack[Len(stack)]

\* self._nested_schema_classes of the JSONSchema instance at stack level i
RegistryAt(i) == IF i = 1 THEN _nested_schema_classes ELSE stack[i].registry

\* get_properties still has a field to visit
Pending(frame) == frame.idx <= Len(frame.fieldnames)

CurrentName(frame) == frame.fieldnames[frame.idx]

CurrentField(frame) == schemas[frame.obj].fields[CurrentName(frame)]

\* Mutant of NeedsCompile: line 201 without `and name != outer_name`.
NeedsCompile_no_self_check(name, registry, outer_name) == name \notin DOMAIN registry

\* line 201
NeedsCompile(name, registry, outer_name) ==
    name \notin DOMAIN registry /\ name # outer_name

\* the current field of the top frame reaches a Nested field that line 201 sends
\* into a nested dump()
TopEntersNested ==
    /\ stack # <<>>
    /\ Pending(Top)
    /\ ~RaisesUnsupported(CurrentField(Top))
    /\ NestedCore(CurrentField(Top)) # <<>>
    /\ NeedsCompile(NestedCore(CurrentField(Top))[1].nested, RegistryAt(Len(stack)), Top.obj)

\* schemas with field f of class c replaced
WithField(c, f, field) == [schemas EXCEPT ![c].fields[f] = field]

\* Mutant of MergeNested: line 213 left out.
MergeNested_no_update(registry, name, wrapped_dumped, nested_registry) ==
    DictSet(registry, name, wrapped_dumped)

\* lines 211-213: self._nested_schema_classes[name] = wrapped_dumped, then
\* self._nested_schema_classes.update(wrapped_nested._nested_schema_classes)
MergeNested(registry, name, wrapped_dumped, nested_registry) ==
    DictUpdate(DictSet(registry, name, wrapped_dumped), nested_registry)

\* properties[field.name] = schema, and on to the next field
FrameAfterField(frame, field, schema) ==
    [frame EXCEPT !.properties = DictSet(frame.properties, field.name, JObj(schema)),
                  !.idx = frame.idx + 1]

\* the data a finished frame's dump() serializes (before wrap)
FrameData(frame) ==
    DumpData(frame.properties, get_required(schemas[frame.obj].fields, frame.fieldnames))

\* what `dumped` records of a finished dump()
DumpRecord(frame, data) ==
    [obj |-> frame.obj, fieldnames |-> frame.fieldnames, data |-> data,
     nested |-> frame.nested]

----------------------------------------------------------------------------
(* Actions *)

\* JSONSchema().dump(obj) on the root instance, obj an instance of class s
dump(s) ==
    /\ stack = <<>>
    /\ calls_left > 0
    /\ stack' = <<Frame(s, sorted(DOMAIN schemas[s].fields), FALSE)>>
    /\ root' = s
    /\ outcome' = "running"
    /\ compiles' = [n \in Names |-> IF n = s THEN 1 ELSE 0]
    /\ calls_left' = calls_left - 1
    /\ UNCHANGED <<schemas, _nested_schema_classes, returned, dumped, schemas0>>

\* get_properties visits a field that reaches no Nested field
get_properties ==
    /\ stack # <<>>
    /\ Pending(Top)
    /\ LET field == CurrentField(Top)
       IN  /\ ~RaisesUnsupported(field)
           /\ NestedCore(field) = <<>>
           /\ stack' = [stack EXCEPT ![Len(stack)] =
                            FrameAfterField(Top, field, _get_schema_for_field(field))]
           /\ schemas' = WithField(Top.obj, CurrentName(Top), FieldAfter(field, TRUE))
    /\ UNCHANGED <<_nested_schema_classes, outcome, root, returned, compiles, dumped,
                   calls_left, schemas0>>

\* _from_nested_schema with line 201 false: the name is in this instance's
\* registry, or is the name of the schema being dumped; only the reference is built
_from_nested_schema_skip ==
    /\ stack # <<>>
    /\ Pending(Top)
    /\ LET field == CurrentField(Top)
       IN  /\ ~RaisesUnsupported(field)
           /\ NestedCore(field) # <<>>
           /\ ~NeedsCompile(NestedCore(field)[1].nested, RegistryAt(Len(stack)), Top.obj)
           /\ stack' = [stack EXCEPT ![Len(stack)] =
                            FrameAfterField(Top, field, _get_schema_for_field(field))]
           /\ schemas' = WithField(Top.obj, CurrentName(Top), FieldAfter(field, TRUE))
    /\ UNCHANGED <<_nested_schema_classes, outcome, root, returned, compiles, dumped,
                   calls_left, schemas0>>

\* _from_nested_schema with line 201 true: lines 202-204 make a new JSONSchema
\* instance and call its dump() on the projected nested instance
_from_nested_schema_enter ==
    /\ TopEntersNested
    /\ Len(stack) < RecursionLimit
    /\ LET field == CurrentField(Top)
           core == NestedCore(field)[1]
           only == IF core.by_instance THEN <<>> ELSE core.only
           exclude == IF core.by_instance THEN {} ELSE core.exclude
           names == sorted(InstanceFields(schemas[core.nested], only, exclude))
       IN  /\ stack' = Append(stack, Frame(core.nested, names, TRUE))
           /\ schemas' = WithField(Top.obj, CurrentName(Top), FieldAfter(field, FALSE))
           /\ compiles' = [compiles EXCEPT ![core.nested] = @ + 1]
    /\ UNCHANGED <<_nested_schema_classes, outcome, root, returned, dumped, calls_left,
                   schemas0>>

\* the same call when the interpreter's stack is exhausted: RecursionError
\* propagates out of the root dump()
RecursionError ==
    /\ TopEntersNested
    /\ Len(stack) >= RecursionLimit
    /\ stack' = <<>>
    /\ outcome' = "RecursionError"
    /\ schemas' = WithField(Top.obj, CurrentName(Top), FieldAfter(CurrentField(Top), FALSE))
    /\ UNCHANGED <<_nested_schema_classes, root, returned, compiles, dumped, calls_left,
                   schemas0>>


\* the nested dump() returns: lines 203-213 store its data under the name and
\* merge the nested instance's registry, lines 215-233 build the fragment, and
\* get_properties goes on with the next field
_from_nested_schema_return ==
    /\ Len(stack) >= 2
    /\ ~Pending(Top)
    /\ _resolve_additional_properties(schemas[Top.obj]) # Raised(Unsupported)
    /\ LET child == Top
           level == Len(stack) - 1
           parent == stack[level]
           field == CurrentField(parent)
           name == NestedCore(field)[1].nested
           wrapped_dumped == DictSet(FrameData(child), "additionalProperties",
                                     _resolve_additional_properties(schemas[name]))
           registry == MergeNested(RegistryAt(level), name, wrapped_dumped, child.registry)
           after == FrameAfterField(parent, field, _get_schema_for_field(field))
       IN  /\ stack' = SubSeq(stack, 1, level - 1) \o
                       <<IF level = 1 THEN after ELSE [after EXCEPT !.registry = registry]>>
           /\ _nested_schema_classes' = IF level = 1 THEN registry ELSE _nested_schema_classes
           /\ schemas' = WithField(parent.obj, CurrentName(parent), FieldAfter(field, TRUE))
           /\ dumped' = DumpRecord(child, wrapped_dumped)
    /\ UNCHANGED <<outcome, root, returned, compiles, calls_left, schemas0>>

\* The document wrap() returns: its "definitions" is the root instance's
\* _nested_schema_classes dict itself, not a copy
Document(name) ==
    [k \in {"$schema", "definitions", "$ref"} |->
        CASE k = "$schema" -> JStr("http://json-schema.org/draft-07/schema#")
          [] k = "definitions" -> JObj(_nested_schema_classes)
          [] k = "$ref" -> JStr(DefinitionRef(name))]

\* the root dump() ends: wrap (lines 240-257) with self.nested false
wrap ==
    /\ Len(stack) = 1
    /\ ~Pending(Top)
    /\ _resolve_additional_properties(schemas[Top.obj]) # Raised(Unsupported)
    /\ LET data == DictSet(FrameData(Top), "additionalProperties",
                           _resolve_additional_properties(schemas[Top.obj]))
       IN  /\ _nested_schema_classes' = DictSet(_nested_schema_classes, Top.obj, data)
           /\ returned' = DictSet(_nested_schema_classes, Top.obj, data)
           /\ dumped' = DumpRecord(Top, data)
    /\ stack' = <<>>
    /\ outcome' = "document"
    /\ UNCHANGED <<schemas, root, compiles, calls_left, schemas0>>

\* _get_pytype raises (line 157): the exception leaves the root dump()
raise_unsupported_field ==
    /\ stack # <<>>
    /\ Pending(Top)
    /\ RaisesUnsupported(CurrentField(Top))
    /\ stack' = <<>>
    /\ outcome' = Unsupported
    /\ schemas' = WithField(Top.obj, CurrentName(Top), FieldAfter(CurrentField(Top), FALSE))
    /\ UNCHANGED <<_nested_schema_classes, root, returned, compiles, dumped, calls_left,
                   schemas0>>

\* _resolve_additional_properties raises (lines 62, 74), at line 207 or at line 249
raise_unsupported_meta ==
    /\ stack # <<>>
    /\ ~Pending(Top)
    /\ _resolve_additional_properties(schemas[Top.obj]) = Raised(Unsupported)
    /\ stack' = <<>>
    /\ outcome' = Unsupported
    /\ UNCHANGED <<schemas, _nested_schema_classes, root, returned, compiles, dumped,
                   calls_left, schemas0>>

Next ==
    \/ \E s \in Names : dump(s)
    \/ get_properties
    \/ _from_nested_schema_skip
    \/ _from_nested_schema_enter
    \/ _from_nested_schema_return
    \/ RecursionError
    \/ wrap
    \/ raise_unsupported_field
    \/ raise_unsupported_meta

----------------------------------------------------------------------------
(* The schema classes a run starts from.                                   *)

MaxEdges == 4
MaxCalls == 2
MultiCallEdges == 2

NoMeta == [additional_properties |-> None, unknown |-> None]

\* a field as marshmallow constructs it when given nothing but its class
PlainField(cls, name) ==
    [cls |-> cls, name |-> name, attribute |-> "", required |-> FALSE,
     dump_only |-> FALSE, default |-> missing, metadata |-> EmptyDict,
     validators |-> <<>>, nested |-> "", many |-> FALSE, only |-> <<>>,
     exclude |-> {}, by_instance |-> FALSE, inner |-> <<>>, type_mapping |-> <<>>]

\* fields.Nested(target)
NestedField(name, target) == [PlainField("Nested", name) EXCEPT !.nested = target]

\* fields.List(inner)
ListField(name, inner) == [PlainField("List", name) EXCEPT !.inner = <<inner>>]

NoFields == [f \in {} |-> PlainField("Raw", f)]

EmptySchema == [fields |-> NoFields, Meta |-> NoMeta]

\* a class with the one field given, under the field's name
OneField(field) == [f \in {field.name} |-> field]

\* In the graph scenarios the nested field aimed at class "A" is named "a", ...
FieldFor == [n \in Names |-> CASE n = "A" -> "a" [] n = "B" -> "b" [] n = "C" -> "c" [] n = "D" -> "d"]

TargetOf(f) == CHOOSE n \in Names : FieldFor[n] = f

RECURSIVE SumOver(_, _)
SumOver(f, S) ==
    IF S = {} THEN 0
    ELSE LET x == CHOOSE y \in S : TRUE IN f[x] + SumOver(f, S \ {x})

EdgeCount(g) == SumOver([n \in Names |-> Cardinality(g[n])], Names)

\* the classes of nesting graph g: class n has one plain Nested field per target
GraphSchemas(g) ==
    [n \in Names |->
        [fields |-> [f \in {FieldFor[t] : t \in g[n]} |-> NestedField(f, TargetOf(f))],
         Meta |-> NoMeta]]

\* Scenario 1: every nesting graph over Names with at most MaxEdges nested fields
InitGraphs ==
    \E g \in [Names -> SUBSET Names] :
        /\ EdgeCount(g) <= MaxEdges
        /\ schemas = GraphSchemas(g)
        /\ calls_left = IF EdgeCount(g) <= MultiCallEdges THEN MaxCalls ELSE 1

\* class "A" as given, the other classes without fields
OnlyA(fields, meta) ==
    [n \in Names |-> IF n = "A" THEN [fields |-> fields, Meta |-> meta] ELSE EmptySchema]

\* field.metadata with top-level entries for topKeys and, if sub is <<keys>>, a
\* nested "metadata" sub-mapping with entries for keys
MakeMetadata(topKeys, sub) ==
    [k \in topKeys \cup (IF sub = <<>> THEN {} ELSE {"metadata"}) |->
        IF k = "metadata" THEN JObj([j \in sub[1] |-> JStr("sub")]) ELSE JStr("top")]

Length(min, max, equal) == [cls |-> "Length", min |-> min, max |-> max, equal |-> equal]
OneOf(choices) == [cls |-> "OneOf", choices |-> choices]
Range(min, max, min_exclusive, max_exclusive) ==
    [cls |-> "Range", min |-> min, max |-> max,
     min_exclusive |-> min_exclusive, max_exclusive |-> max_exclusive]
Regexp == [cls |-> "Regexp"]

\* the inner fields given to a List
InnerInputs ==
    { PlainField("String", "a"),
      [PlainField("String", "a") EXCEPT !.metadata = MakeMetadata({"description"}, <<{"title"}>>)],
      PlainField("Function", "a"),
      NestedField("a", "B") }

\* one field of every class, with every combination of its flags
FlagInputs ==
    { [PlainField(cls, "a") EXCEPT !.required = r, !.dump_only = d, !.default = df,
                                   !.attribute = at] :
        cls \in FieldClasses \ {"Nested", "List"}, r \in BOOLEAN, d \in BOOLEAN,
        df \in {missing, JNum(0)}, at \in {"", "attr"} }
    \cup { [ListField("a", inner) EXCEPT !.required = r] :
             inner \in InnerInputs, r \in BOOLEAN }

\* the validators given to a field of class cls
ValidatorInputs(cls) ==
    CASE cls = "String" -> { <<>>, <<Length(JNum(1), None, None)>>,
                             <<Length(None, None, JNum(3))>>,
                             <<OneOf(<<JStr("x"), JStr("y")>>)>>, <<Regexp>>,
                             <<Regexp, OneOf(<<JStr("x")>>), Length(JNum(1), JNum(2), None)>> }
      [] cls = "List" -> { <<>>, <<Length(JNum(1), JNum(2), None)>> }
      [] cls = "Integer" -> { <<>>, <<Range(JNum(0), None, TRUE, FALSE)>>,
                              <<Range(JNum(0), JNum(9), FALSE, TRUE)>>,
                              <<OneOf(<<JNum(1), JNum(2)>>)>> }

\* fields with metadata (top-level entries, a nested sub-mapping, or both) and
\* validators; a Length validator only where the fragment's type is the class's own
MetadataInputs ==
    UNION { { [(IF cls = "List" THEN ListField("a", PlainField("String", "a"))
                ELSE PlainField(cls, "a"))
               EXCEPT !.metadata = MakeMetadata(top, sub), !.validators = v] :
                top \in SUBSET {"type", "items", "enum", "description"},
                sub \in {<<>>, <<{}>>, <<{"type"}>>, <<{"title"}>>, <<{"type", "title"}>>},
                v \in ValidatorInputs(cls) } :
            cls \in {"String", "List", "Integer"} }

CustomFragment == [k \in {"type"} |-> JStr("custom")]

\* fields with a _jsonschema_type_mapping, as a method or as a metadata entry
TypeMappingInputs ==
    { [PlainField(cls, "a") EXCEPT !.type_mapping = tm, !.metadata = md, !.validators = v] :
        cls \in {"String", "Function"},
        tm \in {<<>>, <<CustomFragment>>},
        md \in {EmptyDict, [k \in {"_jsonschema_type_mapping"} |-> JObj(CustomFragment)]},
        v \in {<<>>, <<OneOf(<<JStr("x")>>)>>} }

UsesLength(field) == \E i \in 1..Len(field.validators) : field.validators[i].cls = "Length"

\* Scenario 2: class "A" with one field that is not a Nested field
InitField ==
    \E field \in FlagInputs \cup MetadataInputs \cup TypeMappingInputs :
        /\ UsesLength(field) => "type" \notin DOMAIN MergedMetadata(field.metadata)
        /\ schemas = OnlyA(OneField(field), NoMeta)
        /\ calls_left = MaxCalls

\* Scenario 3: class "A" with one Nested field "b", on itself or on "B", with every
\* combination of its options; "B" with no field, a field nested on "A", or a
\* required string
InitNested ==
    \E target \in {"A", "B"}, many \in BOOLEAN, required \in BOOLEAN,
       top \in {{}, {"description"}, {"type"}}, sub \in {<<>>, <<{"title"}>>},
       v \in {<<>>, <<OneOf(<<JStr("x")>>)>>}, exclude \in {{}, {"a"}},
       by_instance \in BOOLEAN, wrapped \in BOOLEAN,
       bfields \in { NoFields, OneField(NestedField("a", "A")),
                     OneField([PlainField("String", "a") EXCEPT !.required = TRUE]) } :
        LET field == [NestedField("b", target) EXCEPT
                         !.many = many, !.required = required,
                         !.metadata = MakeMetadata(top, sub), !.validators = v,
                         !.exclude = exclude, !.by_instance = by_instance]
        IN  /\ wrapped => (~many /\ ~by_instance /\ exclude = {})
            /\ schemas = [OnlyA(OneField(IF wrapped THEN ListField("b", field) ELSE field),
                                NoMeta)
                          EXCEPT !["B"] = [fields |-> bfields, Meta |-> NoMeta]]
            /\ calls_left = MaxCalls

MetaInputs ==
    { [additional_properties |-> ap, unknown |-> u] :
        ap \in {None, JBool(TRUE), JBool(FALSE), JStr("yes")},
        u \in {None, RAISE, EXCLUDE, INCLUDE, JStr("bogus")} }

\* Scenario 4: class "A" with any of the string fields "a", "b", "c", each required
\* or not, and possibly a field "d" nested on "B", which has a required string
InitRequired ==
    \E present \in SUBSET {"a", "b", "c"}, req \in SUBSET {"a", "b", "c"}, d \in BOOLEAN :
        /\ req \subseteq present
        /\ schemas =
              [OnlyA([f \in present \cup (IF d THEN {"d"} ELSE {}) |->
                         IF f = "d" THEN [NestedField("d", "B") EXCEPT !.required = TRUE]
                         ELSE [PlainField("String", f) EXCEPT !.required = f \in req]],
                     NoMeta)
               EXCEPT !["B"] = [fields |-> OneField([PlainField("String", "a")
                                                    EXCEPT !.required = TRUE]),
                                Meta |-> NoMeta]]
        /\ calls_left = MaxCalls

\* Scenario 5: class "A" with a field "d" nested on "B", each class with every
\* combination of Meta.additional_properties and Meta.unknown
InitMeta ==
    \E metaA \in MetaInputs, metaB \in MetaInputs :
        /\ schemas = [OnlyA(OneField(NestedField("d", "B")), metaA)
                      EXCEPT !["B"] = [fields |-> NoFields, Meta |-> metaB]]
        /\ calls_left = MaxCalls

InitRest ==
    /\ stack = <<>>
    /\ _nested_schema_classes = EmptyDict
    /\ outcome = "none"
    /\ root = ""
    /\ returned = EmptyDict
    /\ compiles = [n \in Names |-> 0]
    /\ dumped = [obj |-> "", fieldnames |-> <<>>, data |-> EmptyDict, nested |-> FALSE]
    /\ schemas0 = schemas

Init ==
    /\ \/ InitGraphs
       \/ InitField
       \/ InitNested
       \/ InitRequired
       \/ InitMeta
    /\ InitRest

Spec == Init /\ [][Next]_vars

----------------------------------------------------------------------------
(* The nesting graph of the schema classes, for stating the properties.    *)

FieldsOf(n) == {schemas[n].fields[f] : f \in DOMAIN schemas[n].fields}

\* the classes that class n has a Nested field on (directly or inside a List)
Targets(n) == {NestedCore(field)[1].nested : field \in {x \in FieldsOf(n) : NestedCore(x) # <<>>}}

\* the classes reached from the classes of S in at most k nesting steps
RECURSIVE Reach(_, _)
Reach(S, k) == IF k = 0 THEN S ELSE Reach(S \cup UNION {Targets(n) : n \in S}, k - 1)

ReachableFrom(n) == Reach({n}, Cardinality(Names))

\* class n is on a nesting cycle through another class
OnLongCycle(n) ==
    \E m \in Targets(n) \ {n} :
        n \in Reach(Targets(m) \ {m}, Cardinality(Names))

\* class n has a Nested field on class m that no projection narrows
NestsUnprojected(n, m) ==
    \E field \in FieldsOf(n) :
        /\ field.cls = "Nested" /\ ~HasTypeMapping(field)
        /\ field.nested = m /\ field.only = <<>> /\ field.exclude = {}

\* a root dump() has ended
Ended == stack = <<>> /\ outcome \notin {"none", "running"}

\* the fragment compiled for field f in the last finished dump()
DumpedFragment(f) == dumped.data["properties"][2][f][2]

\* the fields the last finished dump() visited, as first given
DumpedFields == {schemas0[dumped.obj].fields[f] : f \in {dumped.fieldnames[i] : i \in 1..Len(dumped.fieldnames)}}

\* the effective metadata of a field as first given: the nested sub-mapping
\* overlaid with the top-level entries, but for the key "metadata"
EffectiveKeys(field) == (DOMAIN field.metadata \cup DOMAIN MetadataSub(field.metadata)) \ {"metadata"}

EffectiveValue(field, k) ==
    IF k \in DOMAIN field.metadata THEN field.metadata[k] ELSE field.metadata["metadata"][2][k]

\* the field is resolved through the type table (no custom fragment, not Nested)
ThroughTypeTable(field) ==
    /\ ~HasTypeMapping(field)
    /\ field.cls # "Nested"
    /\ ~RaisesUnsupported(field)

HasValidator(field, cls) == \E i \in 1..Len(field.validators) : field.validators[i].cls = cls

\* the keywords the field's constraints write
ConstraintKeys(field) ==
    (IF HasValidator(field, "Length") THEN {"minLength", "maxLength", "minItems", "maxItems"} ELSE {})
    \cup (IF HasValidator(field, "OneOf") THEN {"enum"} ELSE {})
    \cup (IF HasValidator(field, "Range")
          THEN {"minimum", "maximum", "exclusiveMinimum", "exclusiveMaximum"} ELSE {})

----------------------------------------------------------------------------
(* Properties *)

\* C1: when class a has an unprojected Nested field on class b and b one on a
\* (a # b), a root dump() of a ends by returning a document.
C1_MutualCompileReturnsDocument ==
    \A a, b \in Names :
        (a # b /\ NestsUnprojected(a, b) /\ NestsUnprojected(b, a) /\ root = a /\ Ended)
            => outcome = "document"

\* the classes nest as a diamond under the root: the root nests a and b, and
\* each of a and b nests c, which nests nothing
IsDiamond(r) ==
    \E a, b, c \in Names \ {r} :
        /\ a # b /\ a # c /\ b # c
        /\ Targets(r) = {a, b}
        /\ Targets(a) = {c}
        /\ Targets(b) = {c}
        /\ Targets(c) = {}

\* C9: within one root dump(), no schema class is dumped more than once; in
\* particular not the class at the bottom of a diamond.
C9_CompiledAtMostOnce ==
    (root \in Names /\ IsDiamond(root)) => \A n \in Names : compiles[n] <= 1

\* C3: the definitions of a returned document hold only the root class and the
\* classes reachable from it, and a returned document's definitions stay as
\* they were when it was returned.
C3_FreshRegistryPerCall ==
    /\ (Ended /\ outcome = "document")
           => DOMAIN Document(root)["definitions"][2] \subseteq ReachableFrom(root)
    /\ returned # EmptyDict => _nested_schema_classes = returned

\* C4: after any number of dump() calls every schema class, with its fields and
\* their metadata (nested sub-mapping included), is as it was before the first.
C4_InputsNeverMutated == schemas = schemas0


\* class n has a Nested field on itself
SelfNestedFields(n) ==
    {field \in FieldsOf(n) : field.cls = "Nested" /\ ~HasTypeMapping(field) /\ field.nested = n}

\* no class reachable from n is on a nesting cycle through another class
OnlySelfCycles(n) == \A m \in ReachableFrom(n) : ~OnLongCycle(m)

Definitions == Document(root)["definitions"][2]

\* the "$ref" of the reference fragment inside the fragment of a Nested field
RefOfNested(frag, many) == IF many THEN frag["items"][2]["$ref"] ELSE frag["$ref"]

\* C2: a root dump() of a class with a field nested on itself (and no nesting
\* cycle through other classes) never exhausts the stack, dumps the class once,
\* and returns a document whose definitions have the class's entry, in which the
\* self-nested field's fragment refers to "#/definitions/<the class>".
C2_SelfNestedCompiles ==
    (root \in Names /\ SelfNestedFields(root) # {} /\ OnlySelfCycles(root)) =>
        /\ outcome \in {"running", "document"}
        /\ Len(stack) <= Cardinality(Names)
        /\ compiles[root] = 1
        /\ Ended =>
              /\ root \in DOMAIN Definitions
              /\ \A field \in SelfNestedFields(root) :
                    RefOfNested(Definitions[root]["properties"][2][field.name][2], field.many)
                        = JStr(DefinitionRef(root))

C2_Witness ==
    /\ Ended /\ outcome = "document"
    /\ SelfNestedFields(root) # {} /\ OnlySelfCycles(root)
    /\ Targets(root) # {root}
    /\ \A t \in Targets(root) : t \in DOMAIN Definitions

\* the unknown-field policy and override values the claim ranges over
InClaimedMeta(meta) ==
    /\ meta.additional_properties \in {None, JBool(TRUE), JBool(FALSE)}
    /\ meta.unknown \in {None, RAISE, EXCLUDE, INCLUDE}

\* C5 as claimed: additionalProperties is true exactly when the unknown-field
\* policy is "accept unknown" or the explicit override is true, false otherwise.
C5_TrueIffAcceptOrOverride ==
    (dumped.obj \in Names /\ InClaimedMeta(schemas[dumped.obj].Meta)) =>
        LET meta == schemas[dumped.obj].Meta
        IN  dumped.data["additionalProperties"] =
                JBool(meta.unknown = INCLUDE \/ meta.additional_properties = JBool(TRUE))

\* C5 as amended: additionalProperties is true exactly when the explicit
\* override is true, or the override is absent and the unknown-field policy is
\* "accept unknown"; it is false in every other case, the default included.
C5_OverrideThenUnknown ==
    (dumped.obj \in Names /\ InClaimedMeta(schemas[dumped.obj].Meta)) =>
        LET meta == schemas[dumped.obj].Meta
        IN  dumped.data["additionalProperties"] =
                JBool(\/ meta.additional_properties = JBool(TRUE)
                      \/ meta.additional_properties = None /\ meta.unknown = INCLUDE)

C5_Witness ==
    /\ dumped.obj = "A"
    /\ schemas["A"].Meta.additional_properties = JBool(FALSE)
    /\ schemas["A"].Meta.unknown = INCLUDE
    /\ dumped.data["additionalProperties"] = JBool(FALSE)

\* every effective metadata key of the field, but for those in `except`, maps to
\* its metadata value in the fragment
MetadataWins(field, frag, except) ==
    \A k \in EffectiveKeys(field) \ except :
        k \in DOMAIN frag /\ frag[k] = EffectiveValue(field, k)

\* the keys written after the metadata is copied: "items" of a list (line 149)
\* and the keywords of the field's constraints (lines 173-177)
WrittenLater(field) ==
    (IF field.cls = "List" THEN {"items"} ELSE {}) \cup ConstraintKeys(field)

\* MetadataWins for a field of the last dump() and, for a list, for its inner
\* field; with `later`, but for the keys written after the metadata is copied
MetadataWinsIn(field, frag, later) ==
    /\ MetadataWins(field, frag, IF later THEN WrittenLater(field) ELSE {})
    /\ (field.cls = "List" /\ ThroughTypeTable(field.inner[1]))
           => MetadataWins(field.inner[1], frag["items"][2],
                           IF later THEN WrittenLater(field.inner[1]) ELSE {})

\* C6 as claimed: in the final fragment of a field resolved through the type
\* table, every effective metadata key but "metadata" maps to its metadata value
\* (stated here for the fields that carry no constraint at all).
C6_MetadataAlwaysWins ==
    dumped.obj \in Names =>
        \A field \in {x \in DumpedFields : ThroughTypeTable(x) /\ x.validators = <<>>} :
            MetadataWinsIn(field, DumpedFragment(field.name), FALSE)

\* C6 as amended: every effective metadata key but "metadata", but "items" on a
\* list field, and but the keywords written by the field's own constraints,
\* maps to its metadata value in the final fragment.
C6_MetadataWinsOverTypeTable ==
    dumped.obj \in Names =>
        \A field \in {x \in DumpedFields : ThroughTypeTable(x)} :
            MetadataWinsIn(field, DumpedFragment(field.name), TRUE)

C6_Witness ==
    /\ dumped.obj = "A"
    /\ \E field \in DumpedFields :
          /\ ThroughTypeTable(field)
          /\ {"type", "description"} \subseteq DOMAIN field.metadata
          /\ "title" \in DOMAIN MetadataSub(field.metadata)
          /\ DumpedFragment(field.name)["type"] = JStr("top")
          /\ DumpedFragment(field.name)["title"] = JStr("sub")


\* the field names the last finished dump() visited, and those marked required
DumpedNames == {dumped.fieldnames[i] : i \in 1..Len(dumped.fieldnames)}

DumpedRequired == {f \in DumpedNames : schemas0[dumped.obj].fields[f].required}

\* the field, among the required ones, whose external name is `name`
RequiredKeyOf(name) == CHOOSE f \in DumpedRequired : schemas0[dumped.obj].fields[f].name = name

\* C7: the data of a dump() has the key "required" iff some field of the schema
\* is required; it then lists exactly the names of the required fields, in the
\* sorted order of the field names.
C7_RequiredIffSomeFieldRequired ==
    dumped.obj \in Names =>
        /\ "required" \in DOMAIN dumped.data <=> DumpedRequired # {}
        /\ "required" \in DOMAIN dumped.data =>
              LET required == dumped.data["required"]
              IN  /\ required[1] = "list"
                  /\ Len(required[2]) = Cardinality(DumpedRequired)
                  /\ {required[2][i] : i \in 1..Len(required[2])}
                        = {schemas0[dumped.obj].fields[f].name : f \in DumpedRequired}
                  /\ \A i, j \in 1..Len(required[2]) :
                        i < j => FieldRank(RequiredKeyOf(required[2][i]))
                                    < FieldRank(RequiredKeyOf(required[2][j]))

C7_Witness ==
    /\ dumped.obj = "A"
    /\ DumpedNames = {"a", "b", "c"}
    /\ "required" \in DOMAIN dumped.data
    /\ dumped.data["required"] = JList(<<"a", "c">>)

\* the many Nested fields the last finished dump() visited
DumpedManyNested ==
    {field \in DumpedFields : field.cls = "Nested" /\ ~HasTypeMapping(field) /\ field.many}

\* C8: the fragment of a many Nested field has "items", the reference fragment of
\* the target with the field's metadata merged onto it, and "type", "array" if
\* the field is required and ["array", "null"] if not; the metadata is not on
\* the wrapper.
C8_ManyNestedWrapsReference ==
    dumped.obj \in Names =>
        \A field \in DumpedManyNested :
            LET frag == DumpedFragment(field.name)
            IN  /\ frag["type"] = IF field.required THEN JStr("array")
                                  ELSE JList(<<"array", "null">>)
                /\ IsObj(frag["items"])
                /\ "$ref" \notin EffectiveKeys(field)
                       => frag["items"][2]["$ref"] = JStr(DefinitionRef(field.nested))
                /\ "type" \notin EffectiveKeys(field)
                       => frag["items"][2]["type"] = JStr("object")
                /\ MetadataWins(field, frag["items"][2], {})
                /\ DOMAIN frag \subseteq {"type", "items"} \cup ConstraintKeys(field)

C8_Witness ==
    /\ dumped.obj = "A"
    /\ \E field \in DumpedManyNested :
          /\ ~field.required
          /\ field.nested = "B"
          /\ "description" \in EffectiveKeys(field)
          /\ DumpedFragment(field.name)["type"] = JList(<<"array", "null">>)
          /\ DumpedFragment(field.name)["items"][2]["description"] = JStr("top")

\* the "$ref" values in a fragment and in the "items" inside it
RECURSIVE RefsIn(_)
RefsIn(frag) ==
    (IF "$ref" \in DOMAIN frag THEN {frag["$ref"]} ELSE {})
    \cup (IF "items" \in DOMAIN frag /\ IsObj(frag["items"])
          THEN RefsIn(frag["items"][2]) ELSE {})

\* the "$ref" values in the properties of a definitions entry
RefsOfEntry(entry) ==
    UNION {RefsIn(entry["properties"][2][p][2]) : p \in DOMAIN entry["properties"][2]}

\* C10: in a returned document every "$ref" of every definitions entry names a
\* key of the definitions, the root "$ref" names the root class's own entry, and
\* every entry has a boolean "additionalProperties".
C10_NoDanglingReference ==
    (Ended /\ outcome = "document") =>
        /\ \A n \in DOMAIN Definitions :
              /\ RefsOfEntry(Definitions[n])
                    \subseteq {JStr(DefinitionRef(m)) : m \in DOMAIN Definitions}
              /\ "additionalProperties" \in DOMAIN Definitions[n]
              /\ IsBool(Definitions[n]["additionalProperties"])
        /\ root \in DOMAIN Definitions
        /\ Document(root)["$ref"] = JStr(DefinitionRef(root))

\* a document with a class nested under the root that nests itself (cycle guard)
\* and a class the root does not nest directly
C10_Witness ==
    /\ Ended /\ outcome = "document"
    /\ \E n \in Targets(root) \ {root} :
          /\ n \in Targets(n)
          /\ \E m \in Targets(n) \ ({n, root} \cup Targets(root)) : m \in DOMAIN Definitions

====
